---- MODULE Spec2Model ----
(***************************************************************************)
(* Fitness tracker: distance, mean speed and calories of a workout, as     *)
(* computed by the two source versions of the repository:                  *)
(*   "main" -- src/main.go                                                 *)
(*   "part" -- src/unnamed/part_000                                        *)
(* The float64 arithmetic of the source is modelled by exact rational      *)
(* arithmetic over arbitrary-precision naturals (TLC integers are 32 bit   *)
(* wide and the sample Walking computation does not fit).                  *)
(***************************************************************************)
EXTENDS Integers, Sequences, FiniteSets, TLC

(***************************************************************************)
(* Arbitrary-precision naturals: little-endian sequences of limbs in       *)
(* 0..Base-1 without a leading zero limb; zero is the empty sequence.      *)
(***************************************************************************)
Base == 100 * 100

RECURSIVE BNat(_)
BNat(n) == IF n = 0 THEN <<>> ELSE <<n % Base>> \o BNat(n \div Base)

RECURSIVE BTrim(_)
BTrim(a) ==
    IF a = <<>> THEN a
    ELSE IF a[Len(a)] = 0 THEN BTrim(SubSeq(a, 1, Len(a) - 1)) ELSE a

BLimb(a, i) == IF i <= Len(a) THEN a[i] ELSE 0

BMax(m, n) == IF m >= n THEN m ELSE n

RECURSIVE BAddFrom(_, _, _, _)
BAddFrom(a, b, i, carry) ==
    IF i > BMax(Len(a), Len(b))
    THEN IF carry = 0 THEN <<>> ELSE <<carry>>
    ELSE LET s == BLimb(a, i) + BLimb(b, i) + carry
         IN  <<s % Base>> \o BAddFrom(a, b, i + 1, s \div Base)

BAdd(a, b) == BAddFrom(a, b, 1, 0)

\* a - b for a >= b
RECURSIVE BSubFrom(_, _, _, _)
BSubFrom(a, b, i, borrow) ==
    IF i > Len(a) THEN <<>>
    ELSE LET s == a[i] - BLimb(b, i) - borrow
         IN  IF s < 0
             THEN <<s + Base>> \o BSubFrom(a, b, i + 1, 1)
             ELSE <<s>> \o BSubFrom(a, b, i + 1, 0)

BSub(a, b) == BTrim(BSubFrom(a, b, 1, 0))

\* a * m for one limb m
RECURSIVE BMulLimbFrom(_, _, _, _)
BMulLimbFrom(a, m, i, carry) ==
    IF i > Len(a)
    THEN IF carry = 0 THEN <<>> ELSE <<carry>>
    ELSE LET p == a[i] * m + carry
         IN  <<p % Base>> \o BMulLimbFrom(a, m, i + 1, p \div Base)

BMulLimb(a, m) == IF m = 0 THEN <<>> ELSE BMulLimbFrom(a, m, 1, 0)

BShift(a) == IF a = <<>> THEN a ELSE <<0>> \o a

RECURSIVE BMul(_, _)
BMul(a, b) ==
    IF a = <<>> \/ b = <<>> THEN <<>>
    ELSE BAdd(BMulLimb(b, a[1]), BShift(BMul(Tail(a), b)))

\* -1, 0, 1 as a < b, a = b, a > b
RECURSIVE BCmpFrom(_, _, _)
BCmpFrom(a, b, i) ==
    IF i = 0 THEN 0
    ELSE IF a[i] < b[i] THEN -1
    ELSE IF a[i] > b[i] THEN 1
    ELSE BCmpFrom(a, b, i - 1)

BCmp(a, b) ==
    IF Len(a) < Len(b) THEN -1
    ELSE IF Len(a) > Len(b) THEN 1
    ELSE BCmpFrom(a, b, Len(a))

\* floor(a / b) as an integer, for b > 0 and a quotient below 2^30
RECURSIVE BQuotAbove(_, _, _)
BQuotAbove(a, b, k) ==
    IF BCmp(BMul(b, BNat(k)), a) = 1 THEN k ELSE BQuotAbove(a, b, 2 * k)

RECURSIVE BQuotBetween(_, _, _, _)
BQuotBetween(a, b, lo, hi) ==
    IF hi - lo <= 1 THEN lo
    ELSE LET mid == (lo + hi) \div 2
         IN  IF BCmp(BMul(b, BNat(mid)), a) = 1
             THEN BQuotBetween(a, b, lo, mid)
             ELSE BQuotBetween(a, b, mid, hi)

BQuot(a, b) == BQuotBetween(a, b, 0, BQuotAbove(a, b, 1))

(***************************************************************************)
(* float64 values as exact rationals sgn * num / den, den > 0.  The        *)
(* representation is not reduced: values are compared with RCmp / REq.     *)
(***************************************************************************)
Abs(i) == IF i < 0 THEN -i ELSE i
Sgn(i) == IF i < 0 THEN -1 ELSE IF i > 0 THEN 1 ELSE 0

RFrac(n, d) == [sgn |-> Sgn(n), num |-> BNat(Abs(n)), den |-> BNat(d)]
RInt(n)     == RFrac(n, 1)
RZero       == RInt(0)

\* the result of a float64 division by zero (+Inf, -Inf or NaN): not a number
NaN == [sgn |-> 0, num |-> <<>>, den |-> <<>>]

RNeg(x) == [x EXCEPT !.sgn = -x.sgn]

RMul(x, y) ==
    IF x.sgn = 0 \/ y.sgn = 0 THEN RZero
    ELSE [sgn |-> x.sgn * y.sgn, num |-> BMul(x.num, y.num), den |-> BMul(x.den, y.den)]

RDiv(x, y) ==
    IF y.sgn = 0 THEN NaN
    ELSE IF x.sgn = 0 THEN RZero
    ELSE [sgn |-> x.sgn * y.sgn, num |-> BMul(x.num, y.den), den |-> BMul(x.den, y.num)]

RAdd(x, y) ==
    IF x.sgn = 0 THEN y
    ELSE IF y.sgn = 0 THEN x
    ELSE LET a == BMul(x.num, y.den)
             b == BMul(y.num, x.den)
             d == BMul(x.den, y.den)
             c == BCmp(a, b)
         IN  IF x.sgn = y.sgn THEN [sgn |-> x.sgn, num |-> BAdd(a, b), den |-> d]
             ELSE IF c = 0 THEN RZero
             ELSE IF c = 1 THEN [sgn |-> x.sgn, num |-> BSub(a, b), den |-> d]
             ELSE [sgn |-> y.sgn, num |-> BSub(b, a), den |-> d]

RSub(x, y) == RAdd(x, RNeg(y))

\* -1, 0, 1 as x < y, x = y, x > y
RCmp(x, y) == RSub(x, y).sgn

REq(x, y) == RCmp(x, y) = 0
RLe(x, y) == RCmp(x, y) <= 0
RLt(x, y) == RCmp(x, y) < 0
RAbs(x)   == [x EXCEPT !.sgn = Abs(x.sgn)]

\* the integer nearest to x * scale, ties away from zero (the sign of a
\* negative value that rounds to zero, printed by fmt as -0.00, is dropped)
RRound(x, scale) ==
    IF x.sgn = 0 THEN 0
    ELSE x.sgn * BQuot(BAdd(BMul(BMul(x.num, BNat(scale)), BNat(2)), x.den),
                       BMul(x.den, BNat(2)))

(***************************************************************************)
(* time.Duration: the model counts whole minutes (the source counts        *)
(* nanoseconds in an int64); Hours() and Minutes() return float64.         *)
(***************************************************************************)
Hours(d)   == RFrac(d, 60)
Minutes(d) == RInt(d)

(***************************************************************************)
(* Workout values.  A workout is a record [kind, Training, ...] where kind *)
(* is the Go struct type (Running, Walking, Swimming) and Training is the  *)
(* embedded struct.  Fields carry the names of src/main.go; part_000       *)
(* calls them Type, StepLength, PoolLength and PoolCount.                  *)
(***************************************************************************)
TrainingOf(type, action, lenStep, duration, weight) ==
    [TrainingType |-> type, Action |-> action, LenStep |-> lenStep,
     Duration |-> duration, Weight |-> weight]

RunningOf(t)          == [kind |-> "Running", Training |-> t]
WalkingOf(t, height)  == [kind |-> "Walking", Training |-> t, Height |-> height]
SwimmingOf(t, lp, cp) == [kind |-> "Swimming", Training |-> t,
                          LengthPool |-> lp, CountPool |-> cp]

InfoMessageOf(type, duration, dist, speed, cal) ==
    [TrainingType |-> type, Duration |-> duration, Distance |-> dist,
     MeanSpeed |-> speed, Calories |-> cal]

(***************************************************************************)
(* src/main.go                                                             *)
(***************************************************************************)
MInKm      == 1000
MinInHours == 60
LenStep    == RFrac(65, 100)
CmInM      == 100

Main_Training_distance(train) ==
    IF train.Action <= 0 \/ RLe(train.LenStep, RZero) THEN RZero
    ELSE RDiv(RMul(RInt(train.Action), train.LenStep), RInt(MInKm))

Main_Training_meanSpeed(train) ==
    IF REq(Hours(train.Duration), RZero) THEN RZero
    ELSE RDiv(Main_Training_distance(train), Hours(train.Duration))

Main_Training_Calories(train) == RZero

Main_Training_TrainingInfo(train) ==
    InfoMessageOf(train.TrainingType, train.Duration,
                  Main_Training_distance(train),
                  Main_Training_meanSpeed(train),
                  Main_Training_Calories(train))

\* The rendered text: the label, the minutes as %.0f, the rest as %.2f
\* (numbers of hundredths).
Main_InfoMessage_String(infoMsg) ==
    [TrainingType |-> infoMsg.TrainingType,
     Minutes      |-> RRound(Minutes(infoMsg.Duration), 1),
     Distance     |-> RRound(infoMsg.Distance, 100),
     MeanSpeed    |-> RRound(infoMsg.MeanSpeed, 100),
     Calories     |-> RRound(infoMsg.Calories, 100)]

CaloriesMeanSpeedMultiplier == 18
CaloriesMeanSpeedShift      == RFrac(179, 100)

Main_Running_Calories(run) ==
    IF REq(Main_Training_meanSpeed(run.Training), RZero) \/ RLe(run.Training.Weight, RZero)
    THEN RZero
    ELSE RMul(RDiv(RMul(RAdd(RMul(RInt(CaloriesMeanSpeedMultiplier),
                                  Main_Training_meanSpeed(run.Training)),
                             CaloriesMeanSpeedShift),
                        run.Training.Weight),
                   RInt(MInKm)),
              RMul(Hours(run.Training.Duration), RInt(MinInHours)))

Main_Running_TrainingInfo(run) == Main_Training_TrainingInfo(run.Training)

CaloriesWeightMultiplier      == RFrac(35, 1000)
CaloriesSpeedHeightMultiplier == RFrac(29, 1000)
KmHInMsec                     == RFrac(278, 1000)

\* Mutant: the height left in centimetres.
Mut_Walking_Calories(walk) ==
    IF \/ RLe(walk.Training.Weight, RZero)
       \/ RLe(walk.Height, RZero)
       \/ REq(Main_Training_meanSpeed(walk.Training), RZero)
    THEN RZero
    ELSE LET speedInMs == RMul(Main_Training_meanSpeed(walk.Training), KmHInMsec)
         IN  RMul(RMul(RAdd(RMul(CaloriesWeightMultiplier, walk.Training.Weight),
                            RMul(RMul(RDiv(RMul(speedInMs, speedInMs), walk.Height),
                                      CaloriesSpeedHeightMultiplier),
                                 walk.Training.Weight)),
                       Hours(walk.Training.Duration)),
                  RInt(MinInHours))

Main_Walking_Calories(walk) ==
    IF \/ RLe(walk.Training.Weight, RZero)
       \/ RLe(walk.Height, RZero)
       \/ REq(Main_Training_meanSpeed(walk.Training), RZero)
    THEN RZero
    ELSE LET speedInMs == RMul(Main_Training_meanSpeed(walk.Training), KmHInMsec)
             heightInM == RDiv(walk.Height, RInt(CmInM))
         IN  RMul(RMul(RAdd(RMul(CaloriesWeightMultiplier, walk.Training.Weight),
                            RMul(RMul(RDiv(RMul(speedInMs, speedInMs), heightInM),
                                      CaloriesSpeedHeightMultiplier),
                                 walk.Training.Weight)),
                       Hours(walk.Training.Duration)),
                  RInt(MinInHours))

Main_Walking_TrainingInfo(walk) == Main_Training_TrainingInfo(walk.Training)

SwimmingLenStep                  == RFrac(138, 100)
SwimmingCaloriesMeanSpeedShift   == RFrac(11, 10)
SwimmingCaloriesWeightMultiplier == 2

\* Mutant: the speed over the stroke distance, as Training computes it.
Mut_Swimming_meanSpeed(swim) == Main_Training_meanSpeed(swim.Training)

Main_Swimming_meanSpeed(swim) ==
    IF \/ swim.LengthPool <= 0
       \/ swim.CountPool <= 0
       \/ REq(Hours(swim.Training.Duration), RZero)
    THEN RZero
    ELSE RDiv(RDiv(RMul(RInt(swim.LengthPool), RInt(swim.CountPool)), RInt(MInKm)),
              Hours(swim.Training.Duration))

Main_Swimming_Calories(swim) ==
    IF RLe(swim.Training.Weight, RZero) \/ REq(Main_Swimming_meanSpeed(swim), RZero)
    THEN RZero
    ELSE RMul(RMul(RMul(RAdd(Main_Swimming_meanSpeed(swim), SwimmingCaloriesMeanSpeedShift),
                        RInt(SwimmingCaloriesWeightMultiplier)),
                   swim.Training.Weight),
              Hours(swim.Training.Duration))

Main_Swimming_TrainingInfo(swim) ==
    InfoMessageOf(swim.Training.TrainingType, swim.Training.Duration,
                  Main_Training_distance(swim.Training),
                  Main_Swimming_meanSpeed(swim),
                  Main_Swimming_Calories(swim))

\* The interface CaloriesCalculator: a call through it runs the method of the
\* value's own type.
Main_CaloriesCalculator_Calories(training) ==
    CASE training.kind = "Running"  -> Main_Running_Calories(training)
      [] training.kind = "Walking"  -> Main_Walking_Calories(training)
      [] training.kind = "Swimming" -> Main_Swimming_Calories(training)

Main_CaloriesCalculator_TrainingInfo(training) ==
    CASE training.kind = "Running"  -> Main_Running_TrainingInfo(training)
      [] training.kind = "Walking"  -> Main_Walking_TrainingInfo(training)
      [] training.kind = "Swimming" -> Main_Swimming_TrainingInfo(training)

Main_ReadData(training) ==
    LET spentCalories == Main_CaloriesCalculator_Calories(training)
        infoMsg       == Main_CaloriesCalculator_TrainingInfo(training)
    IN  Main_InfoMessage_String([infoMsg EXCEPT !.Calories = spentCalories])

(***************************************************************************)
(* src/unnamed/part_000                                                    *)
(***************************************************************************)
metersInKm              == 1000
minutesInHour           == 60
defaultStepLength       == RFrac(65, 100)
cmInMeter               == 100
caloriesSpeedMultiplier == 18
caloriesSpeedShift      == RFrac(179, 100)

Part_SwimmingLenStep                  == RFrac(138, 100)
Part_SwimmingCaloriesMeanSpeedShift   == RFrac(11, 10)
Part_SwimmingCaloriesWeightMultiplier == 2

Part_Training_distance(t) ==
    IF RLe(t.LenStep, RZero) THEN RZero
    ELSE RDiv(RMul(RInt(t.Action), t.LenStep), RInt(metersInKm))

Part_Training_meanSpeed(t) ==
    IF t.Duration <= 0 THEN RZero
    ELSE RDiv(Part_Training_distance(t), Hours(t.Duration))

Part_Training_Calories(t) == RZero

Part_Training_TrainingInfo(t) ==
    InfoMessageOf(t.TrainingType, t.Duration,
                  Part_Training_distance(t),
                  Part_Training_meanSpeed(t),
                  Part_Training_Calories(t))

Part_InfoMessage_String(i) ==
    [TrainingType |-> i.TrainingType,
     Minutes      |-> RRound(Minutes(i.Duration), 1),
     Distance     |-> RRound(i.Distance, 100),
     MeanSpeed    |-> RRound(i.MeanSpeed, 100),
     Calories     |-> RRound(i.Calories, 100)]

\* Mutant: the duration left in hours.
Mut_Running_Calories(r) ==
    IF RLe(r.Training.Weight, RZero) \/ RLe(Part_Training_meanSpeed(r.Training), RZero)
    THEN RZero
    ELSE RMul(RDiv(RMul(RAdd(RMul(RInt(caloriesSpeedMultiplier),
                                  Part_Training_meanSpeed(r.Training)),
                             caloriesSpeedShift),
                        r.Training.Weight),
                   RInt(metersInKm)),
              Hours(r.Training.Duration))

Part_Running_Calories(r) ==
    IF RLe(r.Training.Weight, RZero) \/ RLe(Part_Training_meanSpeed(r.Training), RZero)
    THEN RZero
    ELSE RMul(RMul(RDiv(RMul(RAdd(RMul(RInt(caloriesSpeedMultiplier),
                                       Part_Training_meanSpeed(r.Training)),
                                  caloriesSpeedShift),
                             r.Training.Weight),
                        RInt(metersInKm)),
                   Hours(r.Training.Duration)),
              RInt(minutesInHour))

weightMultiplier      == RFrac(35, 1000)
speedHeightMultiplier == RFrac(29, 1000)

Part_Walking_Calories(w) ==
    IF \/ RLe(w.Training.Weight, RZero)
       \/ RLe(w.Height, RZero)
       \/ RLe(Part_Training_meanSpeed(w.Training), RZero)
    THEN RZero
    ELSE LET speedMetersPerSecond ==
                 RDiv(RMul(Part_Training_meanSpeed(w.Training), RInt(1000)), RInt(3600))
         IN  RMul(RMul(RAdd(RMul(weightMultiplier, w.Training.Weight),
                            RMul(RMul(RDiv(RMul(speedMetersPerSecond, speedMetersPerSecond),
                                           RDiv(w.Height, RInt(cmInMeter))),
                                      speedHeightMultiplier),
                                 w.Training.Weight)),
                       Hours(w.Training.Duration)),
                  RInt(minutesInHour))

Part_Swimming_meanSpeed(s) ==
    IF s.LengthPool <= 0 \/ s.Training.Duration <= 0 THEN RZero
    ELSE RDiv(RDiv(RInt(s.LengthPool * s.CountPool), RInt(metersInKm)),
              Hours(s.Training.Duration))

Part_Swimming_Calories(s) ==
    IF RLe(s.Training.Weight, RZero) \/ RLe(Part_Swimming_meanSpeed(s), RZero)
    THEN RZero
    ELSE RMul(RMul(RMul(RAdd(Part_Swimming_meanSpeed(s), Part_SwimmingCaloriesMeanSpeedShift),
                        RInt(Part_SwimmingCaloriesWeightMultiplier)),
                   s.Training.Weight),
              Hours(s.Training.Duration))

\* The interface CaloriesCalculator.  Calories is declared by each of the
\* three types; TrainingInfo is declared by Training alone and promoted to
\* the three types, so its receiver is the embedded Training.
Part_CaloriesCalculator_Calories(training) ==
    CASE training.kind = "Running"  -> Part_Running_Calories(training)
      [] training.kind = "Walking"  -> Part_Walking_Calories(training)
      [] training.kind = "Swimming" -> Part_Swimming_Calories(training)

Part_CaloriesCalculator_TrainingInfo(training) ==
    Part_Training_TrainingInfo(training.Training)

Part_ReadData(training) ==
    LET info == Part_CaloriesCalculator_TrainingInfo(training)
    IN  Part_InfoMessage_String(info)

(***************************************************************************)
(* The method a selector names on a value of each type, in each version:   *)
(* distance is Training's, promoted; meanSpeed is Swimming's own on a      *)
(* Swimming value and Training's otherwise.                                *)
(***************************************************************************)
Versions == {"main", "part"}

distance(v, training) ==
    IF v = "main" THEN Main_Training_distance(training.Training)
    ELSE Part_Training_distance(training.Training)

meanSpeed(v, training) ==
    IF v = "main"
    THEN IF training.kind = "Swimming" THEN Main_Swimming_meanSpeed(training)
         ELSE Main_Training_meanSpeed(training.Training)
    ELSE IF training.kind = "Swimming" THEN Part_Swimming_meanSpeed(training)
         ELSE Part_Training_meanSpeed(training.Training)

Calories(v, training) ==
    IF v = "main" THEN Main_CaloriesCalculator_Calories(training)
    ELSE Part_CaloriesCalculator_Calories(training)

ReadData(v, training) ==
    IF v = "main" THEN Main_ReadData(training) ELSE Part_ReadData(training)

(***************************************************************************)
(* The workouts each version's main() builds and passes to ReadData (the   *)
(* labels, Cyrillic in the source, are written in English), and the        *)
(* bounded workouts the methods are applied to: every field takes a        *)
(* negative, a zero and a positive value.                                  *)
(***************************************************************************)
swimTraining ==
    SwimmingOf(TrainingOf("Swimming", 2000, SwimmingLenStep, 90, RInt(85)), 50, 5)

walkTraining ==
    WalkingOf(TrainingOf("Walking", 20000, LenStep, 3 * 60 + 45, RInt(85)), RInt(185))

runTraining ==
    RunningOf(TrainingOf("Running", 5000, LenStep, 30, RInt(85)))

swimming ==
    SwimmingOf(TrainingOf("Swimming", 2000, Part_SwimmingLenStep, 90, RInt(85)), 50, 5)

walking ==
    WalkingOf(TrainingOf("Walking", 20000, defaultStepLength, 3 * 60 + 45, RInt(85)), RInt(185))

running ==
    RunningOf(TrainingOf("Running", 5000, defaultStepLength, 30, RInt(85)))

Samples == {swimTraining, walkTraining, runTraining} \cup {swimming, walking, running}

MaxAction   == 1
MaxDuration == 1

Actions   == {1000 * a : a \in -1..MaxAction}
Durations == {30 * m : m \in -1..MaxDuration}
LenSteps  == {RNeg(LenStep), RZero, LenStep}
Weights   == {RInt(-85), RZero, RInt(85)}
Heights   == {RInt(-185), RZero, RInt(185)}
Pools     == {-50, 0, 50}
Counts    == {-5, 0, 5}

Trainings(type) ==
    {TrainingOf(type, a, l, d, w) : a \in Actions, l \in LenSteps, d \in Durations, w \in Weights}

Workouts ==
    {RunningOf(t) : t \in Trainings("Running")}
    \cup {WalkingOf(t, h) : t \in Trainings("Walking"), h \in Heights}
    \cup {SwimmingOf(t, lp, cp) : t \in Trainings("Swimming"), lp \in Pools, cp \in Counts}
    \cup Samples

(***************************************************************************)
(* State: the source version, the workout value, the method called on it   *)
(* ("" before the call), the float64 a method returned and the text        *)
(* ReadData returned.                                                      *)
(***************************************************************************)
VARIABLES ver, rec, called, ret, out

vars == <<ver, rec, called, ret, out>>

Init ==
    /\ ver \in Versions
    /\ rec \in Workouts
    /\ called = ""
    /\ ret = <<>>
    /\ out = <<>>

CallDistance ==
    /\ called = ""
    /\ called' = "distance"
    /\ ret' = distance(ver, rec)
    /\ UNCHANGED <<ver, rec, out>>

CallMeanSpeed ==
    /\ called = ""
    /\ called' = "meanSpeed"
    /\ ret' = meanSpeed(ver, rec)
    /\ UNCHANGED <<ver, rec, out>>

CallCalories ==
    /\ called = ""
    /\ called' = "Calories"
    /\ ret' = Calories(ver, rec)
    /\ UNCHANGED <<ver, rec, out>>

CallReadData ==
    /\ called = ""
    /\ called' = "ReadData"
    /\ out' = ReadData(ver, rec)
    /\ UNCHANGED <<ver, rec, ret>>

Next == CallDistance \/ CallMeanSpeed \/ CallCalories \/ CallReadData

Spec == Init /\ [][Next]_vars

(***************************************************************************)
(* Claims                                                                  *)
(***************************************************************************)
Hundredth == RFrac(1, 100)

\* |x - c| <= tol
Within(x, c, tol) == RLe(RAbs(RSub(x, c)), tol)

\* C1: for every workout of every kind, in both versions, the calories the
\* text returned by ReadData carries are the calories of the kind's own
\* Calories method on that workout.
C1_SummaryCarriesKindCalories ==
    called = "ReadData" => out.Calories = RRound(Calories(ver, rec), 100)

\* The mean speed of a Swimming workout by the specification's formula:
\* poolLength * poolCrossings / 1000 / durationHours, 0 if the pool length
\* or the duration is not positive.
SwimmingReferenceSpeed(swim) ==
    IF swim.LengthPool <= 0 \/ swim.Training.Duration <= 0 THEN RZero
    ELSE RDiv(RDiv(RInt(swim.LengthPool * swim.CountPool), RInt(1000)),
              Hours(swim.Training.Duration))

\* C2: for every Swimming workout, in both versions, the mean speed the text
\* returned by ReadData carries is the reference speed, which reads only the
\* pool length, the crossing count and the duration (so neither Action nor
\* the step length changes it).
C2_SummarySwimmingSpeed ==
    (called = "ReadData" /\ rec.kind = "Swimming")
        => out.MeanSpeed = RRound(SwimmingReferenceSpeed(rec), 100)

\* C3: for every workout, with zero or negative fields too, in both
\* versions, distance, meanSpeed and Calories return a value >= 0.
C3_ResultsNonNegative ==
    called \in {"distance", "meanSpeed", "Calories"} => ret.sgn >= 0

\* C4: for every workout whose duration is <= 0, in both versions, meanSpeed
\* (Training's for Running and Walking, Swimming's own for Swimming) returns
\* exactly 0.
C4_NoDurationNoSpeed ==
    (called = "meanSpeed" /\ rec.Training.Duration <= 0) => REq(ret, RZero)

\* The guard of the kind's calorie formula by the specification.
CaloriesGuard(v, training) ==
    \/ RLe(training.Training.Weight, RZero)
    \/ RLe(meanSpeed(v, training), RZero)
    \/ training.kind = "Walking" /\ RLe(training.Height, RZero)

\* C5: in both versions Calories returns exactly 0 whenever the weight is
\* <= 0, the kind's mean speed is <= 0 or, for Walking, the height is <= 0.
C5_GuardedCaloriesZero ==
    (called = "Calories" /\ CaloriesGuard(ver, rec)) => REq(ret, RZero)

\* C6: on each of the three workouts main() builds, ReadData of src/main.go
\* and ReadData of part_000 return the same text.
C6_VersionsAgreeOnSamples ==
    (called = "ReadData" /\ rec \in Samples)
        => out = Main_ReadData(rec) /\ out = Part_ReadData(rec)

\* C7 as stated: on the sample Swimming workout the mean speed is 1.6667
\* km/h (to four places) and the calories are 706.25 (to two places).
C7_Original ==
    rec = swimTraining =>
        /\ called = "meanSpeed" => RRound(ret, 10000) = 16667
        /\ called = "Calories" => RRound(ret, 100) = 70625

\* C7, amended: on the sample Swimming workout, in both versions, Swimming's
\* meanSpeed is 50*5/1000/1.5 = 1/6 km/h (0.1667) and Swimming's Calories is
\* (1/6 + 1.1) * 2 * 85 * 1.5 = 323 exactly.
C7_SwimSample ==
    rec = swimTraining =>
        /\ called = "meanSpeed" => REq(ret, RFrac(1, 6)) /\ RRound(ret, 10000) = 1667
        /\ called = "Calories" => REq(ret, RInt(323))

C7_Witness ==
    rec = swimTraining /\ ver = "main" /\ called = "Calories" /\ RRound(ret, 100) = 32300

\* C8 as stated: on the sample Running workout the distance is 3.25 km, the
\* mean speed 6.5 km/h and the calories within 0.01 of 303.04.
C8_Original ==
    rec = runTraining =>
        /\ called = "distance" => REq(ret, RFrac(325, 100))
        /\ called = "meanSpeed" => REq(ret, RFrac(65, 10))
        /\ called = "Calories" => Within(ret, RFrac(30304, 100), Hundredth)

\* C8, amended: on the sample Running workout, in both versions, the distance
\* is 3.25 km, the mean speed 6.5 km/h and Running's Calories is
\* (18*6.5 + 1.79) * 85 / 1000 * 0.5 * 60 = 302.9145 exactly (302.91).
C8_RunSample ==
    rec = runTraining =>
        /\ called = "distance" => REq(ret, RFrac(325, 100))
        /\ called = "meanSpeed" => REq(ret, RFrac(65, 10))
        /\ called = "Calories" => REq(ret, RFrac(3029145, 10000)) /\ RRound(ret, 100) = 30291

C8_Witness ==
    rec = runTraining /\ ver = "part" /\ called = "Calories" /\ RRound(ret, 100) = 30291

WalkingReferenceCalories(walk, ms) ==
    LET v == RDiv(RMul(ms, RInt(1000)), RInt(3600))
        h == RDiv(walk.Height, RInt(100))
    IN  RMul(RMul(RAdd(RMul(RFrac(35, 1000), walk.Training.Weight),
                       RMul(RMul(RDiv(RMul(v, v), h), RFrac(29, 1000)),
                            walk.Training.Weight)),
                  Hours(walk.Training.Duration)),
             RInt(60))

\* C10: for every Walking workout with weight > 0, height > 0 and mean speed
\* > 0, in both versions, Walking's Calories is the reference formula with
\* the km/h to m/s factor exactly 1000/3600.
C10_WalkingFactorExact ==
    (/\ called = "Calories"
     /\ rec.kind = "Walking"
     /\ RLt(RZero, rec.Training.Weight)
     /\ RLt(RZero, rec.Height)
     /\ RLt(RZero, meanSpeed(ver, rec)))
        => REq(ret, WalkingReferenceCalories(rec, meanSpeed(ver, rec)))
====
